---- MODULE Spec2Model ----
(***************************************************************************)
(* Model of mjit.c: the main-thread side of the method JIT (submission     *)
(* queue, active-unit cache and eviction, continuation registry, GC        *)
(* rendezvous, worker lifecycle, synchronous wait).  The worker thread and  *)
(* the list/unit primitives of mjit_worker.c are modelled from the          *)
(* written specification, since mjit.c only declares them.                  *)
(***************************************************************************)
EXTENDS Integers, Sequences, FiniteSets, TLC

\* ------------------------------------------------------------------ bounds
\* Number of iseqs the host holds.
NIseq == 22
\* Iseqs and units used by the specification of the whole control plane.
NIseqCore == 2
MaxUnitsCore == 2
\* Units the cache specification may create.
MaxUnitsCache == 12
\* Iseqs and units of the specifications of the GC rendezvous and of the
\* synchronous wait.
NIseqWait == 1
MaxUnitsWait == 1
MaxUnitsGC == 3
\* Depth of a control-frame stack, number of continuation records.
MaxFrames == 1
MaxConts == 1
\* Continuation records the specification of the registry allocates.
MaxContRecords == 4
\* The longest active list the eviction specification starts from.
MaxActiveEvict == 20
\* Class serials, worker threads created.
NSerial == 3
MaxWorkerThreads == 3

\* ------------------------------------------------------- program constants
NULL == 0
MJIT_WAIT_TIMEOUT_SECONDS == 60
PollsPerSecond == 1000
DEFAULT_CACHE_SIZE == 1000
MIN_CACHE_SIZE == 10
DeleteDivisor == 10

NOT_ADDED_JIT_ISEQ_FUNC == "NOT_ADDED"
NOT_READY_JIT_ISEQ_FUNC == "NOT_READY"
NOT_COMPILED_JIT_ISEQ_FUNC == "NOT_COMPILED"
\* Any value of the cell above the sentinels: a native entry address.
JIT_FUNC_PTR == "FUNC"

PCH_NOT_READY == "PCH_NOT_READY"
PCH_FAILED == "PCH_FAILED"
PCH_SUCCESS == "PCH_SUCCESS"

ISEQS == 1..NIseq
\* The iseqs the cache specification submits again once they are compiled.
ResubmitIseqs == {1}

VARIABLES
    mjit_enabled,          \* int mjit_enabled
    mjit_call_p,           \* int mjit_call_p
    max_cache_size,        \* mjit_opts.max_cache_size
    mjit_pch_status,       \* enum pch_status_t
    mjit_stop_worker_p,
    mjit_worker_stopped,
    mjit_in_gc,
    mjit_in_jit,
    mjit_current_unit_num,
    units,                 \* heap of struct rb_mjit_unit, by allocation order
    mjit_unit_queue,       \* [nodes, length]
    mjit_active_units,
    mjit_compact_units,
    jit_func,              \* iseq->body->jit_func
    jit_unit,              \* iseq->body->jit_unit (address in units, or NULL)
    total_calls,           \* iseq->body->total_calls
    iseq_freed,            \* iseqs the GC has reclaimed
    th_frames,             \* control frames of the living thread's ec
    conts,                 \* heap of struct mjit_cont
    first_cont,
    mpc,                   \* position of the mutator (main thread)
    marg,                  \* the iseq the mutator's current call is about
    tries,                 \* local of mjit_get_iseq_func
    ret,                   \* value returned by the last mjit_get_iseq_func
    wpc,                   \* position of the worker thread
    wunit,                 \* the unit the worker holds
    opts_max_cache_size,   \* opts->max_cache_size, as passed to mjit_init
    worker_threads,        \* threads rb_thread_create_mjit_thread has created
    result,                \* what the last mjit_pause or mjit_resume returned
    mjit_engine_mutex,     \* "uninit", "free", "mutator" or "destroyed"
    mnode,                 \* node of mjit_mark: its place in the queue
    mjit_valid_class_serials,
    removed_serial         \* the last removal: the serial and the set before

vars == << mjit_enabled, mjit_call_p, max_cache_size, mjit_pch_status,
           mjit_stop_worker_p, mjit_worker_stopped, mjit_in_gc, mjit_in_jit,
           mjit_current_unit_num, units, mjit_unit_queue, mjit_active_units,
           mjit_compact_units, jit_func, jit_unit, total_calls, iseq_freed,
           th_frames, conts, first_cont, mpc, marg, tries, ret, wpc, wunit,
           opts_max_cache_size, worker_threads, result, mjit_engine_mutex,
           mnode, mjit_valid_class_serials, removed_serial >>

flagVars == << mjit_call_p, max_cache_size >>
workerFlags == << mjit_stop_worker_p, mjit_worker_stopped >>
gcVars == << mjit_in_gc, mjit_in_jit >>
listVars == << mjit_unit_queue, mjit_active_units, mjit_compact_units >>
unitVars == << mjit_current_unit_num, units, jit_unit >>
hostVars == << total_calls, iseq_freed, th_frames >>
contVars == << conts, first_cont >>
waitVars == << tries, ret >>
workerVars == << wpc, wunit >>
callVars == << opts_max_cache_size, worker_threads, result >>
lockVars == << mjit_engine_mutex, mnode >>
serialVars == << mjit_valid_class_serials, removed_serial >>

\* ------------------------------------------------------------ list helpers
RECURSIVE SeqToSet(_)
SeqToSet(s) ==
    IF s = << >> THEN {} ELSE {Head(s)} \cup SeqToSet(Tail(s))

RemoveAt(s, k) ==
    [j \in 1..(Len(s) - 1) |-> IF j < k THEN s[j] ELSE s[j + 1]]

init_list == [nodes |-> << >>, length |-> 0]

add_to_list(u, list) ==
    [nodes |-> Append(list.nodes, u), length |-> list.length + 1]

\* remove_from_list(node, list), the node being the k-th of the list.
remove_from_list(k, list) ==
    [nodes |-> RemoveAt(list.nodes, k), length |-> list.length - 1]

\* ------------------------------------------------------------ units
new_unit(id, iseq) ==
    [id |-> id, iseq |-> iseq, handle |-> FALSE, used_code_p |-> FALSE,
     freed |-> FALSE]

\* A create_unit that forgets to advance the id counter.
create_unit_same_id(U, num, JU, iseq, alloc_ok) ==
    IF ~alloc_ok
    THEN [units |-> U, num |-> num, jit_unit |-> JU]
    ELSE [units |-> Append(U, new_unit(num, iseq)),
          num |-> num,
          jit_unit |-> [JU EXCEPT ![iseq] = Len(U) + 1]]

\* create_unit(iseq): ZALLOC, unit->id = mjit_current_unit_num++,
\* unit->iseq = iseq, iseq->body->jit_unit = unit.  alloc_ok = FALSE is the
\* allocation returning NULL, which leaves everything as it was.
create_unit(U, num, JU, iseq, alloc_ok) ==
    IF ~alloc_ok
    THEN [units |-> U, num |-> num, jit_unit |-> JU]
    ELSE [units |-> Append(U, new_unit(num, iseq)),
          num |-> num + 1,
          jit_unit |-> [JU EXCEPT ![iseq] = Len(U) + 1]]

\* free_unit(unit) of the backend: releases the artifact, clears the iseq's
\* link to a unit and frees the unit.  st is [units, active, jit_unit].
free_unit(st, u) ==
    [st EXCEPT !.units[u].freed = TRUE,
               !.jit_unit = IF st.units[u].iseq # NULL
                            THEN [st.jit_unit EXCEPT ![st.units[u].iseq] = NULL]
                            ELSE st.jit_unit]

\* free_unit(node->unit); remove_from_list(node, &mjit_active_units) for the
\* k-th node of the active list.
EvictNode(st, k) ==
    [free_unit(st, st.active.nodes[k]) EXCEPT
        !.active = remove_from_list(k, st.active)]

\* ------------------------------------------------------------ eviction
\* First loop of unload_units: units whose iseq is GCed are unloaded.
RECURSIVE SweepGCed(_, _)
SweepGCed(st, k) ==
    IF k > Len(st.active.nodes) THEN st
    ELSE IF st.units[st.active.nodes[k]].iseq = NULL
         THEN SweepGCed(EvictNode(st, k), k)
         ELSE SweepGCed(st, k + 1)

\* node->unit->used_code_p = FALSE for every node of the active list.
ClearUsed(st) ==
    [st EXCEPT !.units =
        [u \in DOMAIN st.units |->
            IF u \in SeqToSet(st.active.nodes)
            THEN [st.units[u] EXCEPT !.used_code_p = FALSE]
            ELSE st.units[u]]]

\* A mark_ec_units that marks nothing.
mark_ec_units_none(st, ec) ==
    st

\* mark_ec_units(ec): a frame is the iseq it runs, or NULL for a frame that
\* has no pc, no iseq or an iseq slot that is not an imemo_iseq.  An ec
\* without a vm_stack has no frames.
mark_ec_units(st, ec) ==
    [st EXCEPT !.units =
        [u \in DOMAIN st.units |->
            IF \E f \in 1..Len(ec) :
                  /\ ec[f] # NULL
                  /\ st.jit_unit[ec[f]] # NULL
                  /\ st.jit_unit[ec[f]] = u
            THEN [st.units[u] EXCEPT !.used_code_p = TRUE]
            ELSE st.units[u]]]

RECURSIVE MarkAll(_, _)
MarkAll(st, ecs) ==
    IF ecs = << >> THEN st
    ELSE MarkAll(mark_ec_units(st, Head(ecs)), Tail(ecs))

\* An inner loop that takes the last node of the minimum on ties.
RECURSIVE WorstFrom_last_on_ties(_, _, _, _)
WorstFrom_last_on_ties(st, TC, k, worst) ==
    IF k > Len(st.active.nodes) THEN worst
    ELSE LET unit == st.units[st.active.nodes[k]] IN
         IF unit.used_code_p THEN WorstFrom_last_on_ties(st, TC, k + 1, worst)
         ELSE IF \/ worst = 0
                 \/ TC[st.units[st.active.nodes[worst]].iseq] >= TC[unit.iseq]
              THEN WorstFrom_last_on_ties(st, TC, k + 1, k)
              ELSE WorstFrom_last_on_ties(st, TC, k + 1, worst)

\* The inner loop of unload_units: the node with the minimum total_calls
\* among those not in use, the first one on ties; 0 when there is none.
RECURSIVE WorstFrom(_, _, _, _)
WorstFrom(st, TC, k, worst) ==
    IF k > Len(st.active.nodes) THEN worst
    ELSE LET unit == st.units[st.active.nodes[k]] IN
         IF unit.used_code_p THEN WorstFrom(st, TC, k + 1, worst)
         ELSE IF \/ worst = 0
                 \/ TC[st.units[st.active.nodes[worst]].iseq] > TC[unit.iseq]
              THEN WorstFrom(st, TC, k + 1, k)
              ELSE WorstFrom(st, TC, k + 1, worst)

\* An eviction loop that gives up at once.
EvictLoopNone(st, TC, target) ==
    st

\* for (; mjit_active_units.length > max_cache_size - delete_num;) ...
RECURSIVE EvictLoop(_, _, _)
EvictLoop(st, TC, target) ==
    IF st.active.length > target
    THEN LET worst == WorstFrom(st, TC, 1, 0) IN
         IF worst = 0 THEN st
         ELSE EvictLoop(EvictNode(st, worst), TC, target)
    ELSE st

\* An eviction loop that computes its margin anew for every victim.
RECURSIVE EvictLoopRecompute(_, _, _)
EvictLoopRecompute(st, TC, max) ==
    IF st.active.length > max - (st.active.length \div DeleteDivisor)
    THEN LET worst == WorstFrom(st, TC, 1, 0) IN
         IF worst = 0 THEN st
         ELSE EvictLoopRecompute(EvictNode(st, worst), TC, max)
    ELSE st

unload_units_recompute(st, TC, ecs, max) ==
    LET swept == SweepGCed(st, 1)
        marked == MarkAll(ClearUsed(swept), ecs)
    IN EvictLoopRecompute(marked, TC, max)

\* unload_units(): ecs are the ecs of the living threads, then those of the
\* registered continuations.
unload_units(st, TC, ecs, max) ==
    LET swept == SweepGCed(st, 1)
        marked == MarkAll(ClearUsed(swept), ecs)
        delete_num == marked.active.length \div DeleteDivisor
    IN EvictLoop(marked, TC, max - delete_num)

\* ------------------------------------------------------------ continuations
RECURSIVE ContList(_, _)
ContList(C, c) ==
    IF c = NULL THEN << >> ELSE << c >> \o ContList(C, C[c].next)

\* The ecs unload_units walks.
LiveEcs ==
    << th_frames >> \o
    [k \in 1..Len(ContList(conts, first_cont)) |->
        conts[ContList(conts, first_cont)[k]].ec]

\* ------------------------------------------------------------ initial state
\* A normalisation that clamps without the default.
NormalizeCacheSize_clamp_only(n) ==
    IF n < MIN_CACHE_SIZE THEN MIN_CACHE_SIZE ELSE n

\* Option normalisation of mjit_init.
NormalizeCacheSize(n) ==
    LET a == IF n <= 0 THEN DEFAULT_CACHE_SIZE ELSE n
    IN IF a < MIN_CACHE_SIZE THEN MIN_CACHE_SIZE ELSE a

\* The class serials mjit_init adds: that of rb_cObject and that of the class
\* of the top self.
SERIALS == 1..NSerial
SeedSerials == {1, 2}
NoRemoval == [c |-> NULL, before |-> {}, readded |-> FALSE]
\* mnode when the node it pointed to is freed.
DANGLING == -1

\* Values of opts->max_cache_size and of the iseqs' call counters tried.
CacheSizeOpts == {0, 4, 10}
CallProfiles ==
    { [i \in ISEQS |-> 1],
      [i \in ISEQS |-> IF i % 3 = 0 THEN 1 ELSE 2 + (i % 2)] }

\* The state mjit_init leaves when it succeeds, the worker thread created.
InitWith(sizes, profiles) ==
    /\ mjit_enabled = TRUE
    /\ mjit_call_p = TRUE
    /\ opts_max_cache_size \in sizes
    /\ max_cache_size = NormalizeCacheSize(opts_max_cache_size)
    /\ mjit_pch_status = PCH_NOT_READY
    /\ mjit_stop_worker_p = FALSE
    /\ mjit_worker_stopped = FALSE
    /\ mjit_in_gc = FALSE
    /\ mjit_in_jit = FALSE
    /\ mjit_current_unit_num = 0
    /\ units = << >>
    /\ mjit_unit_queue = init_list
    /\ mjit_active_units = init_list
    /\ mjit_compact_units = init_list
    /\ jit_func = [i \in ISEQS |-> NOT_ADDED_JIT_ISEQ_FUNC]
    /\ jit_unit = [i \in ISEQS |-> NULL]
    /\ total_calls \in profiles
    /\ iseq_freed = {}
    /\ th_frames = << >>
    /\ conts = << >>
    /\ first_cont = NULL
    /\ mpc = "idle"
    /\ marg = NULL
    /\ tries = 0
    /\ ret = "none"
    /\ wpc = "pch"
    /\ wunit = NULL
    /\ worker_threads = 1
    /\ result = "none"
    /\ mjit_engine_mutex = "free"
    /\ mnode = NULL
    /\ mjit_valid_class_serials = SeedSerials
    /\ removed_serial = NoRemoval

Init ==
    InitWith(CacheSizeOpts, {[i \in ISEQS |-> 1]})

\* The process before mjit_init: the globals of mjit.c are zero.
InitLife ==
    /\ mjit_enabled = FALSE
    /\ mjit_call_p = FALSE
    /\ max_cache_size = 0
    /\ mjit_pch_status = PCH_NOT_READY
    /\ mjit_stop_worker_p = FALSE
    /\ mjit_worker_stopped = FALSE
    /\ mjit_in_gc = FALSE
    /\ mjit_in_jit = FALSE
    /\ mjit_current_unit_num = 0
    /\ units = << >>
    /\ mjit_unit_queue = init_list
    /\ mjit_active_units = init_list
    /\ mjit_compact_units = init_list
    /\ jit_func = [i \in ISEQS |-> NOT_ADDED_JIT_ISEQ_FUNC]
    /\ jit_unit = [i \in ISEQS |-> NULL]
    /\ total_calls = [i \in ISEQS |-> 1]
    /\ iseq_freed = {}
    /\ th_frames = << >>
    /\ conts = << >>
    /\ first_cont = NULL
    /\ mpc = "idle"
    /\ marg = NULL
    /\ tries = 0
    /\ ret = "none"
    /\ wpc = "absent"
    /\ wunit = NULL
    /\ opts_max_cache_size = 0
    /\ worker_threads = 0
    /\ result = "none"
    /\ mjit_engine_mutex = "uninit"
    /\ mnode = NULL
    /\ mjit_valid_class_serials = {}
    /\ removed_serial = NoRemoval

\* A process whose cache holds len compiled units, one per iseq, in the
\* order of their creation, the queue being empty: the iseqs of gced are
\* reclaimed, the living thread runs the iseqs lo..hi that are not, and a
\* continuation is registered that runs iseq len when cont_p.  The worker
\* fills a cache like this, beyond max_cache_size too, when the units were
\* queued before it compiled them.
RangeFrames(lo, hi, gced) ==
    SelectSeq([k \in 1..(hi - lo + 1) |-> lo + k - 1],
              LAMBDA i : i \notin gced)

FullCache(len, gced, lo, hi, cont_p, profile) ==
    /\ mjit_enabled = TRUE
    /\ mjit_call_p = TRUE
    /\ opts_max_cache_size = MIN_CACHE_SIZE
    /\ max_cache_size = NormalizeCacheSize(MIN_CACHE_SIZE)
    /\ mjit_pch_status = PCH_SUCCESS
    /\ mjit_stop_worker_p = FALSE
    /\ mjit_worker_stopped = FALSE
    /\ mjit_in_gc = FALSE
    /\ mjit_in_jit = FALSE
    /\ mjit_current_unit_num = len
    /\ units = [u \in 1..len |->
                  [id |-> u - 1,
                   iseq |-> IF u \in gced THEN NULL ELSE u,
                   handle |-> TRUE, used_code_p |-> FALSE, freed |-> FALSE]]
    /\ mjit_unit_queue = init_list
    /\ mjit_active_units = [nodes |-> [k \in 1..len |-> k], length |-> len]
    /\ mjit_compact_units = init_list
    /\ jit_func = [i \in ISEQS |-> IF i <= len THEN JIT_FUNC_PTR
                                   ELSE NOT_ADDED_JIT_ISEQ_FUNC]
    /\ jit_unit = [i \in ISEQS |-> IF i <= len /\ i \notin gced THEN i
                                   ELSE NULL]
    /\ total_calls = profile
    /\ iseq_freed = gced
    /\ th_frames = RangeFrames(lo, hi, gced)
    /\ conts = IF cont_p
               THEN << [ec |-> RangeFrames(len, len, gced), prev |-> NULL,
                        next |-> NULL, freed |-> FALSE, linked |-> TRUE] >>
               ELSE << >>
    /\ first_cont = IF cont_p THEN 1 ELSE NULL
    /\ mpc = "idle"
    /\ marg = NULL
    /\ tries = 0
    /\ ret = "none"
    /\ wpc = "idle"
    /\ wunit = NULL
    /\ worker_threads = 1
    /\ result = "none"
    /\ mjit_engine_mutex = "free"
    /\ mnode = NULL
    /\ mjit_valid_class_serials = SeedSerials
    /\ removed_serial = NoRemoval

\* The caches the eviction specification starts from.
EvictLens == {MIN_CACHE_SIZE, MIN_CACHE_SIZE + 1, MaxActiveEvict}
EvictGCed == {{}, {4, 7}}
EvictRanges(len) ==
    {<< 1, 0 >>, << 1, 1 >>, << 2, 3 >>, << 1, len - 1 >>, << 1, len >>}

InitEvict ==
    \E len \in EvictLens, gced \in EvictGCed, cont_p \in BOOLEAN,
       profile \in CallProfiles :
        \E r \in EvictRanges(len) :
            FullCache(len, gced, r[1], r[2], cont_p, profile)

\* ------------------------------------------------------------ GC rendezvous
\* A gc_start_hook that does not wait for the worker.
mjit_gc_start_hook_nowait ==
    /\ mpc = "idle"
    /\ mpc' = "gc"
    /\ mjit_in_gc' = IF mjit_enabled THEN TRUE ELSE mjit_in_gc
    /\ UNCHANGED << callVars, lockVars, serialVars,
                    mjit_enabled, flagVars, mjit_pch_status, workerFlags,
                    mjit_in_jit, unitVars, listVars, jit_func, hostVars,
                    contVars, marg, waitVars, workerVars >>

\* mjit_gc_start_hook up to its first test of mjit_in_jit.  The GC then runs
\* (mpc = "gc") or the hook sleeps on mjit_client_wakeup.
mjit_gc_start_hook ==
    /\ mpc = "idle"
    /\ IF ~mjit_enabled
       THEN mpc' = "gc" /\ UNCHANGED mjit_in_gc
       ELSE IF mjit_in_jit
            THEN mpc' = "gc_start_wait" /\ UNCHANGED mjit_in_gc
            ELSE mpc' = "gc" /\ mjit_in_gc' = TRUE
    /\ UNCHANGED << callVars, lockVars, serialVars,
                    mjit_enabled, flagVars, mjit_pch_status, workerFlags,
                    mjit_in_jit, unitVars, listVars, jit_func, hostVars,
                    contVars, marg, waitVars, workerVars >>

\* A woken hook that returns without a second look and without mjit_in_gc.
mjit_gc_start_hook_woken_leaves ==
    /\ mpc = "gc_start_woken"
    /\ mpc' = "gc"
    /\ UNCHANGED << callVars, lockVars, serialVars,
                    mjit_enabled, flagVars, mjit_pch_status, workerFlags,
                    gcVars, unitVars, listVars, jit_func, hostVars,
                    contVars, marg, waitVars, workerVars >>

\* rb_native_cond_wait returned in mjit_gc_start_hook: test mjit_in_jit again.
mjit_gc_start_hook_woken ==
    /\ mpc = "gc_start_woken"
    /\ IF mjit_in_jit
       THEN mpc' = "gc_start_wait" /\ UNCHANGED mjit_in_gc
       ELSE mpc' = "gc" /\ mjit_in_gc' = TRUE
    /\ UNCHANGED << callVars, lockVars, serialVars,
                    mjit_enabled, flagVars, mjit_pch_status, workerFlags,
                    mjit_in_jit, unitVars, listVars, jit_func, hostVars,
                    contVars, marg, waitVars, workerVars >>

\* mjit_gc_finish_hook; the broadcast of mjit_gc_wakeup wakes a worker that
\* sleeps on it.
mjit_gc_finish_hook ==
    /\ mpc = "gc"
    /\ mpc' = "idle"
    /\ IF ~mjit_enabled
       THEN UNCHANGED << mjit_in_gc, wpc >>
       ELSE /\ mjit_in_gc' = FALSE
            /\ wpc' = IF wpc = "gc_wait" THEN "got" ELSE wpc
    /\ UNCHANGED << callVars, lockVars, serialVars,
                    mjit_enabled, flagVars, mjit_pch_status, workerFlags,
                    mjit_in_jit, unitVars, listVars, jit_func, hostVars,
                    contVars, marg, waitVars, wunit >>

\* Iseqs the GC cannot reclaim: those with a frame on a stack, and those of
\* the queued units, which mjit_mark keeps alive.
OnSomeStack(i) ==
    \E k \in 1..Len(LiveEcs) : \E f \in 1..Len(LiveEcs[k]) : LiveEcs[k][f] = i

Queued(i) ==
    \E k \in 1..Len(mjit_unit_queue.nodes) :
        units[mjit_unit_queue.nodes[k]].iseq = i

\* mjit_free_iseq(iseq), called by the GC for an iseq it reclaims.
mjit_free_iseq(i) ==
    /\ mpc = "gc"
    /\ i \notin iseq_freed
    /\ ~OnSomeStack(i)
    /\ ~Queued(i)
    /\ iseq_freed' = iseq_freed \cup {i}
    /\ units' = IF mjit_enabled /\ jit_unit[i] # NULL
                THEN [units EXCEPT ![jit_unit[i]].iseq = NULL]
                ELSE units
    /\ UNCHANGED << callVars, lockVars, serialVars,
                    mjit_enabled, flagVars, mjit_pch_status, workerFlags,
                    gcVars, mjit_current_unit_num, jit_unit, listVars,
                    jit_func, total_calls, th_frames, contVars, mpc, marg,
                    waitVars, workerVars >>

\* ------------------------------------------------------------ submission
\* mjit_add_iseq_to_process up to the critical section: the early return,
\* the store of NOT_READY, create_unit and the test of jit_unit.
mjit_add_iseq_to_process(i, alloc_ok) ==
    /\ mpc = "idle"
    /\ i \notin iseq_freed
    /\ IF ~mjit_enabled \/ mjit_pch_status = PCH_FAILED
       THEN UNCHANGED << jit_func, unitVars, mpc, marg >>
       ELSE LET made == create_unit(units, mjit_current_unit_num, jit_unit,
                                    i, alloc_ok)
            IN /\ jit_func' = [jit_func EXCEPT ![i] = NOT_READY_JIT_ISEQ_FUNC]
               /\ units' = made.units
               /\ mjit_current_unit_num' = made.num
               /\ jit_unit' = made.jit_unit
               /\ IF made.jit_unit[i] = NULL
                  THEN UNCHANGED << mpc, marg >>
                  ELSE mpc' = "add_locked" /\ marg' = i
    /\ UNCHANGED << callVars, lockVars, serialVars,
                    mjit_enabled, flagVars, mjit_pch_status, workerFlags,
                    gcVars, listVars, hostVars, contVars, waitVars,
                    workerVars >>

\* The critical section of mjit_add_iseq_to_process: add_to_list, unload_units
\* when the cache is full, the broadcast of mjit_worker_wakeup.
add_iseq_critical_section ==
    /\ mpc = "add_locked"
    /\ LET queue == add_to_list(jit_unit[marg], mjit_unit_queue)
           st == [units |-> units, active |-> mjit_active_units,
                  jit_unit |-> jit_unit]
           after == IF mjit_active_units.length >= max_cache_size
                    THEN unload_units(st, total_calls, LiveEcs, max_cache_size)
                    ELSE st
       IN /\ mjit_unit_queue' = queue
          /\ units' = after.units
          /\ mjit_active_units' = after.active
          /\ jit_unit' = after.jit_unit
    /\ mpc' = "idle"
    /\ marg' = NULL
    /\ UNCHANGED << callVars, lockVars, serialVars,
                    mjit_enabled, flagVars, mjit_pch_status, workerFlags,
                    gcVars, mjit_current_unit_num, mjit_compact_units,
                    jit_func, hostVars, contVars, waitVars, workerVars >>

\* ------------------------------------------------------------ host frames
\* The interpreter pushes a control frame: of iseq f, or (f = NULL) a frame
\* that runs no iseq.
PushFrame(f) ==
    /\ mpc = "idle"
    /\ f \notin iseq_freed
    /\ Len(th_frames) < MaxFrames
    /\ th_frames' = Append(th_frames, f)
    /\ UNCHANGED << callVars, lockVars, serialVars,
                    mjit_enabled, flagVars, mjit_pch_status, workerFlags,
                    gcVars, unitVars, listVars, jit_func, total_calls,
                    iseq_freed, contVars, mpc, marg, waitVars, workerVars >>

PopFrame ==
    /\ mpc = "idle"
    /\ th_frames # << >>
    /\ th_frames' = SubSeq(th_frames, 1, Len(th_frames) - 1)
    /\ UNCHANGED << callVars, lockVars, serialVars,
                    mjit_enabled, flagVars, mjit_pch_status, workerFlags,
                    gcVars, unitVars, listVars, jit_func, total_calls,
                    iseq_freed, contVars, mpc, marg, waitVars, workerVars >>

\* ------------------------------------------------------------ continuations
\* The records finish_conts has not freed under the list: mjit_cont_new and
\* mjit_cont_free are taken only while first_cont does not dangle.
ContsIntact ==
    \A c \in 1..Len(conts) : ~conts[c].freed \/ ~conts[c].linked

\* CRITICAL_SECTION_START on a mutex that is not initialised or is destroyed
\* is undefined: the call may behave as a lock, or the process may abort or
\* hang there (mpc = "undefined").
MutexInvalid ==
    mjit_engine_mutex \in {"uninit", "destroyed"}

\* mjit_cont_new(ec): the new record goes in front of first_cont.
mjit_cont_new(ec) ==
    /\ mpc = "idle"
    /\ ContsIntact
    /\ \/ LET c == Len(conts) + 1
              rec == [ec |-> ec, prev |-> NULL, next |-> first_cont,
                      freed |-> FALSE, linked |-> TRUE]
          IN /\ conts' = IF first_cont = NULL
                         THEN Append(conts, rec)
                         ELSE Append([conts EXCEPT ![first_cont].prev = c],
                                     rec)
             /\ first_cont' = c
             /\ UNCHANGED mpc
       \/ MutexInvalid /\ mpc' = "undefined" /\ UNCHANGED contVars
    /\ UNCHANGED << callVars, lockVars, serialVars,
                    mjit_enabled, flagVars, mjit_pch_status, workerFlags,
                    gcVars, unitVars, listVars, jit_func, hostVars, marg,
                    waitVars, workerVars >>

\* A mjit_cont_free that leaves the prev field of the successor as it is.
mjit_cont_free_keeps_prev(c) ==
    /\ mpc = "idle"
    /\ ContsIntact
    /\ c \in 1..Len(conts)
    /\ conts[c].linked
    /\ \/ LET n == conts[c].next
              p == conts[c].prev
              unlinked ==
                  IF c = first_cont
                  THEN IF n # NULL THEN [conts EXCEPT ![n].prev = NULL]
                       ELSE conts
                  ELSE [conts EXCEPT ![p].next = n]
          IN /\ first_cont' = IF c = first_cont THEN n ELSE first_cont
             /\ conts' = [unlinked EXCEPT ![c].freed = TRUE,
                                          ![c].linked = FALSE]
             /\ UNCHANGED mpc
       \/ MutexInvalid /\ mpc' = "undefined" /\ UNCHANGED contVars
    /\ UNCHANGED << callVars, lockVars, serialVars,
                    mjit_enabled, flagVars, mjit_pch_status, workerFlags,
                    gcVars, unitVars, listVars, jit_func, hostVars, marg,
                    waitVars, workerVars >>

\* mjit_cont_free(cont) for a registered record.
mjit_cont_free(c) ==
    /\ mpc = "idle"
    /\ ContsIntact
    /\ c \in 1..Len(conts)
    /\ conts[c].linked
    /\ \/ LET n == conts[c].next
              p == conts[c].prev
              unlinked ==
                  IF c = first_cont
                  THEN IF n # NULL THEN [conts EXCEPT ![n].prev = NULL]
                       ELSE conts
                  ELSE IF n # NULL
                       THEN [conts EXCEPT ![p].next = n, ![n].prev = p]
                       ELSE [conts EXCEPT ![p].next = n]
          IN /\ first_cont' = IF c = first_cont THEN n ELSE first_cont
             /\ conts' = [unlinked EXCEPT ![c].freed = TRUE,
                                          ![c].linked = FALSE]
             /\ UNCHANGED mpc
       \/ MutexInvalid /\ mpc' = "undefined" /\ UNCHANGED contVars
    /\ UNCHANGED << callVars, lockVars, serialVars,
                    mjit_enabled, flagVars, mjit_pch_status, workerFlags,
                    gcVars, unitVars, listVars, jit_func, hostVars, marg,
                    waitVars, workerVars >>

\* ------------------------------------------------------------ lifecycle
\* free_list(list): free_unit and xfree for every node; the list's head and
\* length are not written.
RECURSIVE free_list(_, _)
free_list(st, nodes) ==
    IF nodes = << >> THEN st
    ELSE free_list(free_unit(st, Head(nodes)), Tail(nodes))

\* finish_conts(): xfree of every record from first_cont on; first_cont and
\* the records' links are not written.
finish_conts(C, first) ==
    [c \in DOMAIN C |->
        IF c \in SeqToSet(ContList(C, first))
        THEN [C[c] EXCEPT !.freed = TRUE]
        ELSE C[c]]

\* mjit_finish up to its wait on mjit_pch_wakeup.
mjit_finish ==
    /\ mpc = "idle"
    /\ mjit_enabled
    /\ mpc' = "finish_pch"
    /\ UNCHANGED << callVars, lockVars, serialVars,
                    mjit_enabled, flagVars, mjit_pch_status, workerFlags,
                    gcVars, unitVars, listVars, jit_func, hostVars, contVars,
                    marg, waitVars, workerVars >>

\* The PCH is no longer PCH_NOT_READY: stop_worker() sets mjit_stop_worker_p.
finish_stop_worker ==
    /\ mpc = "finish_pch"
    /\ mjit_pch_status # PCH_NOT_READY
    /\ mjit_stop_worker_p' = TRUE
    /\ mpc' = "finish_stop"
    /\ UNCHANGED << callVars, lockVars, serialVars,
                    mjit_enabled, flagVars, mjit_pch_status,
                    mjit_worker_stopped, gcVars, unitVars, listVars, jit_func,
                    hostVars, contVars, marg, waitVars, workerVars >>

\* The worker has stopped: the rest of mjit_finish.
finish_teardown ==
    /\ mpc = "finish_stop"
    /\ mjit_worker_stopped
    /\ mjit_call_p' = FALSE
    /\ LET st == [units |-> units, active |-> mjit_active_units,
                  jit_unit |-> jit_unit]
           q == free_list(st, mjit_unit_queue.nodes)
           a == free_list(q, mjit_active_units.nodes)
           c == free_list(a, mjit_compact_units.nodes)
       IN /\ units' = c.units
          /\ jit_unit' = c.jit_unit
    /\ conts' = finish_conts(conts, first_cont)
    /\ mjit_enabled' = FALSE
    /\ mjit_engine_mutex' = "destroyed"
    /\ mpc' = "idle"
    /\ UNCHANGED << callVars, mnode, serialVars,
                    max_cache_size, mjit_pch_status, workerFlags, gcVars,
                    mjit_current_unit_num, listVars, jit_func, hostVars,
                    first_cont, marg, waitVars, workerVars >>

\* A mjit_child_after_fork that also records the worker as stopped.
mjit_child_after_fork_stops_worker ==
    /\ mpc = "idle"
    /\ mjit_enabled
    /\ mjit_enabled' = FALSE
    /\ mjit_worker_stopped' = TRUE
    /\ wpc' = "absent"
    /\ UNCHANGED << callVars, lockVars, serialVars,
                    flagVars, mjit_pch_status, mjit_stop_worker_p, gcVars,
                    unitVars, listVars, jit_func, hostVars, contVars, mpc,
                    marg, waitVars, wunit >>

\* mjit_child_after_fork: the child has no worker thread.
mjit_child_after_fork ==
    /\ mpc = "idle"
    /\ mjit_enabled
    /\ mjit_enabled' = FALSE
    /\ wpc' = "absent"
    /\ UNCHANGED << callVars, lockVars, serialVars,
                    flagVars, mjit_pch_status, workerFlags, gcVars, unitVars,
                    listVars, jit_func, hostVars, contVars, mpc, marg,
                    waitVars, wunit >>

\* A mjit_pause that goes to stop_worker() without the flush.
mjit_pause_no_flush(wait_p) ==
    /\ mpc = "idle"
    /\ IF ~mjit_enabled
       THEN result' = "raise" /\ UNCHANGED << mpc, mjit_stop_worker_p >>
       ELSE IF mjit_worker_stopped
            THEN result' = "Qfalse" /\ UNCHANGED << mpc, mjit_stop_worker_p >>
            ELSE /\ UNCHANGED result
                 /\ mpc' = "pause_stop"
                 /\ mjit_stop_worker_p' = TRUE
    /\ UNCHANGED << opts_max_cache_size, worker_threads, lockVars, serialVars,
                    mjit_enabled, flagVars, mjit_pch_status,
                    mjit_worker_stopped, gcVars, unitVars, listVars, jit_func,
                    hostVars, contVars, marg, waitVars, workerVars >>

\* mjit_pause(wait_p) up to its first wait.  A disabled subsystem raises and
\* a stopped worker returns Qfalse: neither writes anything.
mjit_pause(wait_p) ==
    /\ mpc = "idle"
    /\ IF ~mjit_enabled
       THEN result' = "raise" /\ UNCHANGED << mpc, mjit_stop_worker_p >>
       ELSE IF mjit_worker_stopped
            THEN result' = "Qfalse" /\ UNCHANGED << mpc, mjit_stop_worker_p >>
            ELSE /\ UNCHANGED result
                 /\ IF wait_p /\ mjit_unit_queue.length > 0
                    THEN mpc' = "pause_flush" /\ UNCHANGED mjit_stop_worker_p
                    ELSE mpc' = "pause_stop" /\ mjit_stop_worker_p' = TRUE
    /\ UNCHANGED << opts_max_cache_size, worker_threads, lockVars, serialVars,
                    mjit_enabled, flagVars, mjit_pch_status,
                    mjit_worker_stopped, gcVars, unitVars, listVars, jit_func,
                    hostVars, contVars, marg, waitVars, workerVars >>

\* The queue is flushed: stop_worker() sets mjit_stop_worker_p.
pause_flushed ==
    /\ mpc = "pause_flush"
    /\ mjit_unit_queue.length = 0
    /\ mjit_stop_worker_p' = TRUE
    /\ mpc' = "pause_stop"
    /\ UNCHANGED << callVars, lockVars, serialVars,
                    mjit_enabled, flagVars, mjit_pch_status,
                    mjit_worker_stopped, gcVars, unitVars, listVars, jit_func,
                    hostVars, contVars, marg, waitVars, workerVars >>

\* stop_worker() sees mjit_worker_stopped: mjit_pause returns Qtrue.
pause_return ==
    /\ mpc = "pause_stop"
    /\ mjit_worker_stopped
    /\ mpc' = "idle"
    /\ result' = "Qtrue"
    /\ UNCHANGED << opts_max_cache_size, worker_threads, lockVars, serialVars,
                    mjit_enabled, flagVars, mjit_pch_status, workerFlags,
                    gcVars, unitVars, listVars, jit_func, hostVars, contVars,
                    marg, waitVars, workerVars >>

\* A start_worker that leaves mjit_stop_worker_p as it is.
start_worker_keeps_stop_p(thread_ok, pch, enabled) ==
    /\ UNCHANGED mjit_stop_worker_p
    /\ mjit_worker_stopped' = FALSE
    /\ IF thread_ok
       THEN /\ wpc' = IF pch = PCH_NOT_READY THEN "pch" ELSE "idle"
            /\ worker_threads' = worker_threads + 1
            /\ mjit_enabled' = enabled
            /\ mjit_engine_mutex' = "free"
       ELSE /\ mjit_enabled' = FALSE
            /\ wpc' = "absent"
            /\ mjit_engine_mutex' = "destroyed"
            /\ UNCHANGED worker_threads

\* start_worker(): thread_ok is rb_thread_create_mjit_thread succeeding; a
\* failure disables the subsystem and destroys the mutex.  pch is
\* mjit_pch_status when the thread starts, enabled is mjit_enabled before.
start_worker(thread_ok, pch, enabled) ==
    /\ mjit_stop_worker_p' = FALSE
    /\ mjit_worker_stopped' = FALSE
    /\ IF thread_ok
       THEN /\ wpc' = IF pch = PCH_NOT_READY THEN "pch" ELSE "idle"
            /\ worker_threads' = worker_threads + 1
            /\ mjit_enabled' = enabled
            /\ mjit_engine_mutex' = "free"
       ELSE /\ mjit_enabled' = FALSE
            /\ wpc' = "absent"
            /\ mjit_engine_mutex' = "destroyed"
            /\ UNCHANGED worker_threads

\* mjit_resume(): raises when disabled, Qfalse when the worker runs.
mjit_resume(thread_ok) ==
    /\ mpc = "idle"
    /\ IF ~mjit_enabled \/ ~mjit_worker_stopped
       THEN /\ result' = IF ~mjit_enabled THEN "raise" ELSE "Qfalse"
            /\ UNCHANGED << mjit_enabled, workerFlags, wpc, worker_threads,
                            mjit_engine_mutex >>
       ELSE /\ start_worker(thread_ok, mjit_pch_status, mjit_enabled)
            /\ result' = IF thread_ok THEN "Qtrue" ELSE "raise"
    /\ UNCHANGED << opts_max_cache_size, mnode, serialVars,
                    flagVars, mjit_pch_status, gcVars, unitVars, listVars,
                    jit_func, hostVars, contVars, mpc, marg, waitVars, wunit >>

\* mjit_init(opts) with opts->max_cache_size = n.  header_ok is
\* init_header_filename succeeding; when it fails the function returns with
\* the options stored and nothing else set up.  The host calls it once,
\* before any other function of mjit.c that needs the subsystem.
mjit_init(n, header_ok, thread_ok) ==
    /\ mpc = "idle"
    /\ mjit_engine_mutex = "uninit"
    /\ ~mjit_call_p
    /\ opts_max_cache_size' = n
    /\ mjit_call_p' = TRUE
    /\ max_cache_size' = NormalizeCacheSize(n)
    /\ mjit_pch_status' = PCH_NOT_READY
    /\ IF ~header_ok
       THEN /\ mjit_enabled' = FALSE
            /\ UNCHANGED << listVars, mjit_valid_class_serials, workerFlags,
                            wpc, worker_threads, mjit_engine_mutex >>
       ELSE /\ mjit_unit_queue' = init_list
            /\ mjit_active_units' = init_list
            /\ mjit_compact_units' = init_list
            /\ mjit_valid_class_serials' = SeedSerials
            /\ start_worker(thread_ok, PCH_NOT_READY, TRUE)
    /\ UNCHANGED << result, mnode, removed_serial, gcVars, unitVars, jit_func,
                    hostVars, contVars, mpc, marg, waitVars, wunit >>

\* ------------------------------------------------------------ GC mark
\* mjit_mark, called by the GC while it marks: CRITICAL_SECTION_START and
\* node = mjit_unit_queue.head.  mnode is the place of node in the queue,
\* NULL past the tail, DANGLING once the worker has unlinked and freed it.
mjit_mark ==
    /\ mpc = "gc"
    /\ IF ~mjit_enabled
       THEN UNCHANGED << mpc, lockVars >>
       ELSE /\ mjit_engine_mutex = "free"
            /\ mjit_engine_mutex' = "mutator"
            /\ mnode' = IF mjit_unit_queue.nodes = << >> THEN NULL ELSE 1
            /\ mpc' = "mark_loop"
    /\ UNCHANGED << callVars, serialVars, mjit_enabled, flagVars,
                    mjit_pch_status, workerFlags, gcVars, unitVars, listVars,
                    jit_func, hostVars, contVars, marg, waitVars, workerVars >>

\* A mjit_mark that keeps the lock around rb_gc_mark.
mark_loop_keeps_lock ==
    /\ mpc = "mark_loop"
    /\ IF mnode = NULL
       THEN mjit_engine_mutex' = "free" /\ mpc' = "gc" /\ UNCHANGED mnode
       ELSE IF units[mjit_unit_queue.nodes[mnode]].iseq # NULL
            THEN mpc' = "mark_gc_mark" /\ UNCHANGED lockVars
            ELSE /\ mnode' = IF mnode < Len(mjit_unit_queue.nodes)
                             THEN mnode + 1 ELSE NULL
                 /\ UNCHANGED << mpc, mjit_engine_mutex >>
    /\ UNCHANGED << callVars, serialVars, mjit_enabled, flagVars,
                    mjit_pch_status, workerFlags, gcVars, unitVars, listVars,
                    jit_func, hostVars, contVars, marg, waitVars, workerVars >>

\* The test of the for loop and its body up to rb_gc_mark: past the tail the
\* lock is released and mjit_mark returns; for a unit with an iseq the lock
\* is released and rb_gc_mark(iseq) is entered; else node = node->next.
mark_loop ==
    /\ mpc = "mark_loop"
    /\ IF mnode = NULL
       THEN mjit_engine_mutex' = "free" /\ mpc' = "gc" /\ UNCHANGED mnode
       ELSE IF units[mjit_unit_queue.nodes[mnode]].iseq # NULL
            THEN /\ mjit_engine_mutex' = "free"
                 /\ mpc' = "mark_gc_mark"
                 /\ UNCHANGED mnode
            ELSE /\ mnode' = IF mnode < Len(mjit_unit_queue.nodes)
                             THEN mnode + 1 ELSE NULL
                 /\ UNCHANGED << mpc, mjit_engine_mutex >>
    /\ UNCHANGED << callVars, serialVars, mjit_enabled, flagVars,
                    mjit_pch_status, workerFlags, gcVars, unitVars, listVars,
                    jit_func, hostVars, contVars, marg, waitVars, workerVars >>

\* rb_gc_mark has returned: CRITICAL_SECTION_START and node = node->next.
\* The node may have been freed meanwhile; the read of its next field then
\* yields any node of the queue, or NULL.
mark_relock ==
    /\ mpc = "mark_gc_mark"
    /\ mjit_engine_mutex = "free"
    /\ mjit_engine_mutex' = "mutator"
    /\ IF mnode = DANGLING
       THEN mnode' \in {NULL} \cup (1..Len(mjit_unit_queue.nodes))
       ELSE mnode' = IF mnode < Len(mjit_unit_queue.nodes)
                     THEN mnode + 1 ELSE NULL
    /\ mpc' = "mark_loop"
    /\ UNCHANGED << callVars, serialVars, mjit_enabled, flagVars,
                    mjit_pch_status, workerFlags, gcVars, unitVars, listVars,
                    jit_func, hostVars, contVars, marg, waitVars, workerVars >>

\* ------------------------------------------------------------ class serials
\* mjit_add_class_serial(c) up to rb_hash_aset, which it enters without the
\* engine lock.
mjit_add_class_serial(c) ==
    /\ mpc = "idle"
    /\ IF ~mjit_enabled
       THEN UNCHANGED << mpc, marg, mjit_engine_mutex >>
       ELSE mpc' = "serial_aset" /\ marg' = c /\ UNCHANGED mjit_engine_mutex
    /\ UNCHANGED << callVars, mnode, serialVars, mjit_enabled, flagVars,
                    mjit_pch_status, workerFlags, gcVars, unitVars, listVars,
                    jit_func, hostVars, contVars, waitVars, workerVars >>

\* A rb_hash_aset that inserts nothing.
serial_aset_nothing ==
    /\ mpc = "serial_aset"
    /\ UNCHANGED mjit_valid_class_serials
    /\ removed_serial' =
          IF removed_serial.c = marg /\ ~removed_serial.readded
          THEN [removed_serial EXCEPT !.readded = TRUE]
          ELSE NoRemoval
    /\ mpc' = "idle"
    /\ marg' = NULL
    /\ UNCHANGED << callVars, lockVars, mjit_enabled, flagVars,
                    mjit_pch_status, workerFlags, gcVars, unitVars, listVars,
                    jit_func, hostVars, contVars, waitVars, workerVars >>

\* rb_hash_aset(mjit_valid_class_serials, c, Qtrue) and the return.
serial_aset ==
    /\ mpc = "serial_aset"
    /\ mjit_valid_class_serials' = mjit_valid_class_serials \cup {marg}
    /\ removed_serial' =
          IF removed_serial.c = marg /\ ~removed_serial.readded
          THEN [removed_serial EXCEPT !.readded = TRUE]
          ELSE NoRemoval
    /\ mpc' = "idle"
    /\ marg' = NULL
    /\ UNCHANGED << callVars, lockVars, mjit_enabled, flagVars,
                    mjit_pch_status, workerFlags, gcVars, unitVars, listVars,
                    jit_func, hostVars, contVars, waitVars, workerVars >>

\* mjit_remove_class_serial(c): rb_hash_delete_entry in a critical section.
mjit_remove_class_serial(c) ==
    /\ mpc = "idle"
    /\ IF ~mjit_enabled
       THEN UNCHANGED serialVars
       ELSE /\ mjit_engine_mutex = "free"
            /\ mjit_valid_class_serials' = mjit_valid_class_serials \ {c}
            /\ removed_serial' = [c |-> c,
                                  before |-> mjit_valid_class_serials,
                                  readded |-> FALSE]
    /\ UNCHANGED << callVars, lockVars, mjit_enabled, flagVars,
                    mjit_pch_status, workerFlags, gcVars, unitVars, listVars,
                    jit_func, hostVars, contVars, mpc, marg, waitVars,
                    workerVars >>

\* ------------------------------------------------------------ synchronous wait
\* mjit_get_iseq_func(body) is entered: tries = 0.
mjit_get_iseq_func(i) ==
    /\ mpc = "idle"
    /\ i \notin iseq_freed
    /\ mpc' = "get_func_loop"
    /\ marg' = i
    /\ tries' = 0
    /\ UNCHANGED << callVars, lockVars, serialVars,
                    mjit_enabled, flagVars, mjit_pch_status, workerFlags,
                    gcVars, unitVars, listVars, jit_func, hostVars, contVars,
                    ret, workerVars >>

\* The test of the while loop and, the cell being NOT_READY, tries++ and the
\* test of the timeout; then the broadcast and the 1 ms sleep.
get_iseq_func_loop ==
    /\ mpc = "get_func_loop"
    /\ IF jit_func[marg] # NOT_READY_JIT_ISEQ_FUNC
       THEN mpc' = "get_func_return" /\ UNCHANGED tries
       ELSE /\ tries' = tries + 1
            /\ IF \/ (tries + 1) \div PollsPerSecond
                          > MJIT_WAIT_TIMEOUT_SECONDS
                   \/ mjit_pch_status = PCH_FAILED
               THEN mpc' = "get_func_give_up"
               ELSE \/ mpc' = "get_func_loop"
                    \/ MutexInvalid /\ mpc' = "undefined"
    /\ UNCHANGED << callVars, lockVars, serialVars,
                    mjit_enabled, flagVars, mjit_pch_status, workerFlags,
                    gcVars, unitVars, listVars, jit_func, hostVars, contVars,
                    marg, ret, workerVars >>

\* The critical section that stores NOT_COMPILED, and the break.
get_iseq_func_give_up ==
    /\ mpc = "get_func_give_up"
    /\ \/ /\ jit_func' = [jit_func EXCEPT
                               ![marg] = NOT_COMPILED_JIT_ISEQ_FUNC]
          /\ mpc' = "get_func_return"
       \/ MutexInvalid /\ mpc' = "undefined" /\ UNCHANGED jit_func
    /\ UNCHANGED << callVars, lockVars, serialVars,
                    mjit_enabled, flagVars, mjit_pch_status, workerFlags,
                    gcVars, unitVars, listVars, hostVars, contVars, marg,
                    waitVars, workerVars >>

\* return body->jit_func; the local tries ends with the call.
get_iseq_func_return ==
    /\ mpc = "get_func_return"
    /\ ret' = jit_func[marg]
    /\ mpc' = "idle"
    /\ marg' = NULL
    /\ tries' = 0
    /\ UNCHANGED << callVars, lockVars, serialVars,
                    mjit_enabled, flagVars, mjit_pch_status, workerFlags,
                    gcVars, unitVars, listVars, jit_func, hostVars, contVars,
                    workerVars >>

\* ------------------------------------------------------------ the worker
\* The worker builds the precompiled header and broadcasts mjit_pch_wakeup.
worker_make_pch(ok) ==
    /\ wpc = "pch"
    /\ mjit_engine_mutex = "free"
    /\ mjit_pch_status' = IF ok THEN PCH_SUCCESS ELSE PCH_FAILED
    /\ wpc' = "idle"
    /\ UNCHANGED << callVars, lockVars, serialVars,
                    mjit_enabled, flagVars, workerFlags, gcVars, unitVars,
                    listVars, jit_func, hostVars, contVars, mpc, marg,
                    waitVars, wunit >>

\* The worker leaves its loop at a poll: a stop is requested, or there is no
\* precompiled header to compile with.
worker_exit ==
    /\ wpc = "idle"
    /\ mjit_engine_mutex = "free"
    /\ mjit_stop_worker_p \/ mjit_pch_status = PCH_FAILED
    /\ mjit_worker_stopped' = TRUE
    /\ wpc' = "stopped"
    /\ UNCHANGED << callVars, lockVars, serialVars,
                    mjit_enabled, flagVars, mjit_pch_status,
                    mjit_stop_worker_p, gcVars, unitVars, listVars, jit_func,
                    hostVars, contVars, mpc, marg, waitVars, wunit >>

\* The worker takes the head of the queue.
worker_dequeue ==
    /\ wpc = "idle"
    /\ mjit_engine_mutex = "free"
    /\ ~mjit_stop_worker_p
    /\ mjit_pch_status = PCH_SUCCESS
    /\ mjit_unit_queue.length > 0
    /\ wunit' = Head(mjit_unit_queue.nodes)
    /\ mjit_unit_queue' = remove_from_list(1, mjit_unit_queue)
    /\ mnode' = IF mnode = NULL THEN NULL
                ELSE IF mnode \in {1, DANGLING} THEN DANGLING
                ELSE mnode - 1
    /\ wpc' = "got"
    /\ UNCHANGED << callVars, mjit_engine_mutex, serialVars,
                    mjit_enabled, flagVars, mjit_pch_status, workerFlags,
                    gcVars, unitVars, mjit_active_units, mjit_compact_units,
                    jit_func, hostVars, contVars, mpc, marg, waitVars >>

\* Before compiling: sleep on mjit_gc_wakeup while mjit_in_gc, else enter the
\* compile region.
worker_enter_jit ==
    /\ wpc = "got"
    /\ mjit_engine_mutex = "free"
    /\ IF mjit_in_gc
       THEN wpc' = "gc_wait" /\ UNCHANGED mjit_in_jit
       ELSE wpc' = "compiling" /\ mjit_in_jit' = TRUE
    /\ UNCHANGED << callVars, lockVars, serialVars,
                    mjit_enabled, flagVars, mjit_pch_status, workerFlags,
                    mjit_in_gc, unitVars, listVars, jit_func, hostVars,
                    contVars, mpc, marg, waitVars, wunit >>

\* The compile step is done: mjit_in_jit = FALSE and mjit_client_wakeup is
\* signalled, which wakes a gc_start_hook that sleeps on it.
worker_leave_jit ==
    /\ wpc = "compiling"
    /\ mjit_engine_mutex = "free"
    /\ mjit_in_jit' = FALSE
    /\ mpc' = IF mpc = "gc_start_wait" THEN "gc_start_woken" ELSE mpc
    /\ wpc' = "compiled"
    /\ UNCHANGED << callVars, lockVars, serialVars,
                    mjit_enabled, flagVars, mjit_pch_status, workerFlags,
                    mjit_in_gc, unitVars, listVars, jit_func, hostVars,
                    contVars, marg, waitVars, wunit >>

\* Success: the unit gets its handle and goes to the active list, and the
\* function pointer is written into the iseq's body if the iseq still lives.
worker_publish ==
    /\ wpc = "compiled"
    /\ mjit_engine_mutex = "free"
    /\ units' = [units EXCEPT ![wunit].handle = TRUE]
    /\ mjit_active_units' = add_to_list(wunit, mjit_active_units)
    /\ jit_func' = IF units[wunit].iseq # NULL
                   THEN [jit_func EXCEPT ![units[wunit].iseq] = JIT_FUNC_PTR]
                   ELSE jit_func
    /\ wpc' = "idle"
    /\ wunit' = NULL
    /\ UNCHANGED << callVars, lockVars, serialVars,
                    mjit_enabled, flagVars, mjit_pch_status, workerFlags,
                    gcVars, mjit_current_unit_num, jit_unit, mjit_unit_queue,
                    mjit_compact_units, hostVars, contVars, mpc, marg,
                    waitVars >>

\* ------------------------------------------------------------ specifications
Worker ==
    \/ \E ok \in BOOLEAN : worker_make_pch(ok)
    \/ worker_exit
    \/ worker_dequeue
    \/ worker_enter_jit
    \/ worker_leave_jit
    \/ worker_publish

GC ==
    \/ mjit_gc_start_hook
    \/ mjit_gc_start_hook_woken
    \/ mjit_gc_finish_hook

\* The control plane but the synchronous wait and the continuations, on few
\* iseqs: too few for the cache to fill, and no frames.  A failing allocation is tried for iseqs
\* that have no unit.
Next ==
    \/ Worker
    \/ GC
    \/ \E i \in 1..NIseqCore : mjit_free_iseq(i)
    \/ \E i \in 1..NIseqCore, ok \in BOOLEAN :
          /\ Len(units) < MaxUnitsCore
          /\ ok \/ jit_unit[i] = NULL
          /\ mjit_add_iseq_to_process(i, ok)
    \/ add_iseq_critical_section
    \/ mjit_finish
    \/ finish_stop_worker
    \/ finish_teardown
    \/ mjit_child_after_fork
    \/ \E w \in BOOLEAN : mjit_pause(w)
    \/ pause_flushed
    \/ pause_return
    \/ \E ok \in BOOLEAN :
          /\ worker_threads < MaxWorkerThreads
          /\ mjit_resume(ok)

Spec == Init /\ [][Next]_vars

\* The cache.  Iseqs are submitted in the order of their numbers, those of
\* ResubmitIseqs again once compiled; all have the same call count; iseq 1
\* calls iseq 2, which calls iseq 3, and so on.  The worker's steps on one unit touch nothing the mutator reads
\* before the last of them, so one schedule stands for their interleavings:
\* the mutator runs while the worker is at its poll, the worker takes a unit
\* while the mutator is between two calls.
FreshIseq(i) ==
    /\ jit_func[i] = NOT_ADDED_JIT_ISEQ_FUNC
    /\ \A j \in 1..(i - 1) : jit_func[j] # NOT_ADDED_JIT_ISEQ_FUNC

WorkerAtPoll ==
    wpc \in {"pch", "idle", "stopped"}

InitCache ==
    InitWith({MIN_CACHE_SIZE}, {[i \in ISEQS |-> 1]})

NextCache ==
    \/ \E ok \in BOOLEAN : worker_make_pch(ok)
    \/ worker_exit
    \/ mpc = "idle" /\ worker_dequeue
    \/ worker_enter_jit
    \/ worker_leave_jit
    \/ worker_publish
    \/ \E i \in ISEQS :
          /\ WorkerAtPoll
          /\ Len(units) < MaxUnitsCache
          /\ \/ FreshIseq(i)
             \/ i \in ResubmitIseqs /\ jit_func[i] = JIT_FUNC_PTR
          /\ mjit_add_iseq_to_process(i, TRUE)
    \/ WorkerAtPoll /\ add_iseq_critical_section
    \/ WorkerAtPoll /\ PushFrame(Len(th_frames) + 1)
    \/ WorkerAtPoll /\ PopFrame

SpecCache == InitCache /\ [][NextCache]_vars

\* The synchronous wait: submissions, the worker and mjit_get_iseq_func.
NextWait ==
    \/ Worker
    \/ \E i \in 1..NIseqWait :
          /\ Len(units) < MaxUnitsWait
          /\ mjit_add_iseq_to_process(i, TRUE)
    \/ add_iseq_critical_section
    \/ \E i \in 1..NIseqWait : mjit_get_iseq_func(i)
    \/ get_iseq_func_loop
    \/ get_iseq_func_give_up
    \/ get_iseq_func_return

SpecWait == Init /\ [][NextWait]_vars

\* The life of the subsystem from before mjit_init: every entry point, on
\* one iseq, submitted while it has no unit, and one class serial.
\* mjit_get_iseq_func is called for a cell it does not poll on for long,
\* mjit_resume where it starts no thread (Spec has the restarts).
LifeIseqs == {1}
LifeSerials == {1}

Mark ==
    \/ mjit_mark
    \/ mark_loop
    \/ mark_relock

NextLife ==
    \/ \E n \in CacheSizeOpts, header_ok, thread_ok \in BOOLEAN :
          mjit_init(n, header_ok, thread_ok)
    \/ Worker
    \/ GC
    \/ Mark
    \/ \E i \in LifeIseqs : mjit_free_iseq(i)
    \/ \E i \in LifeIseqs :
          /\ jit_unit[i] = NULL
          /\ mjit_add_iseq_to_process(i, TRUE)
    \/ add_iseq_critical_section
    \/ Len(conts) < MaxConts /\ mjit_cont_new(th_frames)
    \/ \E c \in 1..MaxConts : mjit_cont_free(c)
    \/ mjit_finish
    \/ finish_stop_worker
    \/ finish_teardown
    \/ mjit_child_after_fork
    \/ \E w \in BOOLEAN : mjit_pause(w)
    \/ pause_flushed
    \/ pause_return
    \/ \E ok \in BOOLEAN :
          /\ ~mjit_enabled \/ ~mjit_worker_stopped
          /\ mjit_resume(ok)
    \/ \E i \in LifeIseqs :
          /\ jit_func[i] # NOT_READY_JIT_ISEQ_FUNC
                \/ mjit_pch_status = PCH_FAILED
          /\ mjit_get_iseq_func(i)
    \/ get_iseq_func_loop
    \/ get_iseq_func_give_up
    \/ get_iseq_func_return
    \/ \E c \in LifeSerials : mjit_add_class_serial(c)
    \/ serial_aset
    \/ \E c \in LifeSerials : mjit_remove_class_serial(c)

SpecLife == InitLife /\ [][NextLife]_vars

\* Eviction: one more iseq is submitted to a process whose cache is full,
\* and the worker compiles it.
NextEvict ==
    \/ \E i \in ISEQS :
          /\ FreshIseq(i)
          /\ Len(mjit_unit_queue.nodes) = 0
          /\ Len(units) <= MaxActiveEvict
          /\ mjit_add_iseq_to_process(i, TRUE)
    \/ add_iseq_critical_section
    \/ worker_dequeue
    \/ worker_enter_jit
    \/ worker_leave_jit
    \/ worker_publish

SpecEvict == InitEvict /\ [][NextEvict]_vars

\* The class-serial set: the two hooks on every serial, the worker, the GC
\* and the fork.
NextSerial ==
    \/ \E c \in SERIALS : mjit_add_class_serial(c)
    \/ serial_aset
    \/ \E c \in SERIALS : mjit_remove_class_serial(c)
    \/ \E ok \in BOOLEAN : worker_make_pch(ok)
    \/ worker_exit
    \/ mjit_gc_start_hook
    \/ mjit_gc_finish_hook
    \/ mjit_child_after_fork

SpecSerial == Init /\ [][NextSerial]_vars

\* The engine lock: the GC with its mark hook, the class-serial hooks,
\* submissions and the worker.
NextLock ==
    \/ Worker
    \/ GC
    \/ Mark
    \/ \E i \in 1..NIseqCore :
          /\ Len(units) < MaxUnitsGC
          /\ mjit_add_iseq_to_process(i, TRUE)
    \/ add_iseq_critical_section
    \/ \E c \in LifeSerials : mjit_add_class_serial(c)
    \/ serial_aset
    \/ \E c \in LifeSerials : mjit_remove_class_serial(c)

SpecLock == Init /\ [][NextLock]_vars

\* The continuation registry: records are registered for an ec without
\* frames or for one that runs iseq 1, and registered records are freed in
\* any order.
ContEcs == {<< >>, << 1 >>}

NextCont ==
    \/ \E ec \in ContEcs :
          /\ Len(conts) < MaxContRecords
          /\ mjit_cont_new(ec)
    \/ \E c \in 1..MaxContRecords : mjit_cont_free(c)

SpecCont == Init /\ [][NextCont]_vars

\* Pause and finish: submissions, the worker, the GC hooks, mjit_pause,
\* mjit_resume and mjit_finish.  The worker thread is scheduled, and so is
\* the mutator while it polls in mjit_pause and in stop_worker().
NextPause ==
    \/ Worker
    \/ GC
    \/ \E i \in 1..NIseqCore :
          /\ Len(units) < MaxUnitsGC
          /\ mjit_add_iseq_to_process(i, TRUE)
    \/ add_iseq_critical_section
    \/ \E w \in BOOLEAN : mjit_pause(w)
    \/ pause_flushed
    \/ pause_return
    \/ \E ok \in BOOLEAN :
          /\ worker_threads < MaxWorkerThreads
          /\ mjit_resume(ok)
    \/ mjit_finish
    \/ finish_stop_worker
    \/ finish_teardown

SpecPause ==
    /\ Init
    /\ [][NextPause]_vars
    /\ WF_vars(Worker)
    /\ WF_vars(pause_flushed)
    /\ WF_vars(pause_return)

\* The GC rendezvous: submissions, the worker and the GC hooks.  The worker
\* thread is scheduled and a compile step ends; a woken hook runs.
NextGC ==
    \/ Worker
    \/ GC
    \/ \E i \in 1..NIseqCore :
          /\ Len(units) < MaxUnitsGC
          /\ mjit_add_iseq_to_process(i, TRUE)
    \/ add_iseq_critical_section

SpecGC ==
    /\ Init
    /\ [][NextGC]_vars
    /\ WF_vars(worker_leave_jit)
    /\ WF_vars(mjit_gc_start_hook_woken)

\* ------------------------------------------------------------ claims
LiveUnits(i) ==
    {u \in 1..Len(units) : ~units[u].freed /\ units[u].iseq = i}

QueueEntries(i) ==
    {k \in 1..Len(mjit_unit_queue.nodes) :
        units[mjit_unit_queue.nodes[k]].iseq = i}

\* C1: mjit_in_gc and mjit_in_jit are never both true, and while the GC runs
\* between gc_start_hook and gc_finish_hook of an enabled subsystem the
\* worker is not in the compile region.
C1_GcExcludesJit ==
    /\ ~(mjit_in_gc /\ mjit_in_jit)
    /\ (mpc = "gc" /\ mjit_enabled) => (~mjit_in_jit /\ wpc # "compiling")

\* The GC runs and the worker, holding a unit, sleeps on mjit_gc_wakeup.
C1_Witness ==
    mpc = "gc" /\ mjit_in_gc /\ wpc = "gc_wait"

\* C2 as claimed: whenever the mutator has control, active.length is at most
\* max_cache_size.
C2_ActiveWithinMax ==
    mpc = "idle" => mjit_active_units.length <= max_cache_size

\* C2, amended: when mjit_add_iseq_to_process returns, active.length is at
\* most max_cache_size unless every unit left in the active list was found
\* on a stack (used_code_p).
C2_BoundOnReturn ==
    [][(mpc = "add_locked" /\ mpc' = "idle") =>
          \/ mjit_active_units'.length <= max_cache_size
          \/ \A k \in 1..Len(mjit_active_units'.nodes) :
                units'[mjit_active_units'.nodes[k]].used_code_p]_vars

\* A submission has evicted a compiled unit and left the cache below its cap.
C2_Witness ==
    /\ mpc = "idle"
    /\ mjit_active_units.length = max_cache_size - 1
    /\ \E u \in 1..Len(units) : units[u].freed /\ units[u].handle

\* C3: a submission (its unload_units) frees no unit of the active list
\* whose iseq has a frame on a living thread or a registered continuation.
C3_LiveNotEvicted ==
    [][\A u \in 1..Len(units) :
          (mpc = "add_locked" /\ ~units[u].freed /\ units'[u].freed) =>
              ~(units[u].iseq # NULL /\ OnSomeStack(units[u].iseq))]_vars

\* C4: a jit_func cell that holds a pointer or NOT_COMPILED never changes.
C4_TerminalNeverChanges ==
    [][\A i \in ISEQS :
          jit_func[i] \in {JIT_FUNC_PTR, NOT_COMPILED_JIT_ISEQ_FUNC} =>
              jit_func'[i] = jit_func[i]]_vars

\* C5: every iseq has at most one unit and at most one entry in the queue.
C5_OneUnitPerIseq ==
    \A i \in ISEQS :
        /\ Cardinality(LiveUnits(i)) <= 1
        /\ Cardinality(QueueEntries(i)) <= 1

\* C6: when mjit_finish returns, the three lists and the continuation list
\* are empty.
C6_EmptyAfterFinish ==
    [][(mpc = "finish_stop" /\ mpc' = "idle") =>
          /\ mjit_unit_queue' = init_list
          /\ mjit_active_units' = init_list
          /\ mjit_compact_units' = init_list
          /\ first_cont' = NULL]_vars

\* C7: while the worker stays in the compile region a gc_start_hook that
\* waits neither returns nor sets mjit_in_gc, and a waiting hook eventually
\* returns with mjit_in_gc set.
C7_HookWaitsThenReturns ==
    /\ [][(mpc \in {"gc_start_wait", "gc_start_woken"} /\ mjit_in_jit') =>
             (mpc' \in {"gc_start_wait", "gc_start_woken"} /\ ~mjit_in_gc')]_vars
    /\ (mpc = "gc_start_wait") ~> (mpc = "gc" /\ mjit_in_gc)

\* gc_start_hook sleeps while the worker compiles.
C7_Witness ==
    mpc = "gc_start_wait" /\ mjit_in_jit /\ wpc = "compiling"

\* C8: a unit's id is greater than the id of every unit created before it.
C8_IdsIncrease ==
    \A a, b \in 1..Len(units) : a < b => units[a].id < units[b].id

\* Two units exist, the last one created while the worker was stopped.
C8_Witness ==
    /\ Len(units) >= 2
    /\ mjit_worker_stopped
    /\ mpc = "add_locked"

\* C9: without a PCH failure mjit_get_iseq_func gives up at its 60 000th
\* poll, give or take one.
C9_GivesUpAt60000 ==
    (mpc = "get_func_give_up" /\ mjit_pch_status # PCH_FAILED) =>
        /\ tries >= MJIT_WAIT_TIMEOUT_SECONDS * PollsPerSecond - 1
        /\ tries <= MJIT_WAIT_TIMEOUT_SECONDS * PollsPerSecond + 1

\* C11 as claimed: mjit_init called with max_cache_size = 0 leaves the
\* effective max_cache_size at MIN_CACHE_SIZE.
C11_ZeroClampedToMin ==
    (opts_max_cache_size = 0 /\ mjit_call_p) =>
        max_cache_size = MIN_CACHE_SIZE

\* C11, amended: once mjit_init has run, max_cache_size is
\* DEFAULT_CACHE_SIZE when opts->max_cache_size was 0 or less, MIN_CACHE_SIZE
\* when it was from 1 to MIN_CACHE_SIZE - 1, and the option's value
\* otherwise.
C11_ZeroGivesDefault ==
    mjit_call_p =>
        max_cache_size =
            IF opts_max_cache_size <= 0 THEN DEFAULT_CACHE_SIZE
            ELSE IF opts_max_cache_size < MIN_CACHE_SIZE THEN MIN_CACHE_SIZE
            ELSE opts_max_cache_size

\* mjit_init has run with max_cache_size = 0 and started a worker.
C11_Witness ==
    /\ opts_max_cache_size = 0
    /\ mjit_enabled
    /\ max_cache_size = DEFAULT_CACHE_SIZE
    /\ worker_threads = 1

\* Everything but the value the last mjit_pause or mjit_resume returned.
AllButResult ==
    << mjit_enabled, mjit_call_p, max_cache_size, mjit_pch_status,
       mjit_stop_worker_p, mjit_worker_stopped, mjit_in_gc, mjit_in_jit,
       mjit_current_unit_num, units, mjit_unit_queue, mjit_active_units,
       mjit_compact_units, jit_func, jit_unit, total_calls, iseq_freed,
       th_frames, conts, first_cont, mpc, marg, tries, ret, wpc, wunit,
       opts_max_cache_size, worker_threads, mjit_engine_mutex, mnode,
       mjit_valid_class_serials, removed_serial >>

\* C12: every mjit_pause that stops the worker returns with both flags set
\* and every mjit_resume that starts one returns with both flags clear,
\* whatever number of pauses and resumes came before, so that pause; resume;
\* pause; resume ends where pause; resume does.  With the worker stopped no
\* pause is begun, with the worker running no thread is created, and the
\* call that returns the no-op indicator changes nothing.
C12_PauseResumeCycle ==
    [][/\ (mpc = "pause_stop" /\ mpc' = "idle") =>
              /\ mjit_worker_stopped' /\ mjit_stop_worker_p'
              /\ result' = "Qtrue"
       /\ (worker_threads' # worker_threads /\ worker_threads >= 1) =>
              /\ mjit_worker_stopped
              /\ ~mjit_worker_stopped' /\ ~mjit_stop_worker_p'
              /\ result' = "Qtrue"
       /\ (mpc = "idle" /\ mjit_worker_stopped) =>
              mpc' \notin {"pause_flush", "pause_stop"}
       /\ (mpc = "idle" /\ mjit_enabled /\ ~mjit_worker_stopped) =>
              /\ worker_threads' = worker_threads
              /\ mjit_stop_worker_p' # mjit_stop_worker_p =>
                     mpc' = "pause_stop"
       /\ (result' = "Qfalse" /\ result # "Qfalse") =>
              UNCHANGED AllButResult]_vars

\* pause; resume; pause; resume has run on the worker mjit_init started:
\* the third worker thread runs (with a precompiled header a worker stops
\* only when mjit_pause tells it to).
C12_Witness ==
    /\ worker_threads = 3
    /\ mjit_enabled
    /\ mjit_pch_status = PCH_SUCCESS
    /\ ~mjit_worker_stopped /\ ~mjit_stop_worker_p
    /\ result = "Qtrue"

\* C13 as claimed: for every serial c, once mjit_remove_class_serial(c) and
\* then mjit_add_class_serial(c) have run on an enabled subsystem the set is
\* the one the removal found.
C13_RemoveAddRestores ==
    removed_serial.readded =>
        mjit_valid_class_serials = removed_serial.before

\* C13, amended: the same for every serial c that was in the set when it
\* was removed.
C13_RemoveAddRestoresPresent ==
    (removed_serial.readded /\ removed_serial.c \in removed_serial.before) =>
        mjit_valid_class_serials = removed_serial.before

\* A serial of the set has been removed and added again, the set holding
\* another serial too.
C13_Witness ==
    /\ removed_serial.readded
    /\ removed_serial.c \in removed_serial.before
    /\ Cardinality(removed_serial.before) >= 2
    /\ mpc = "idle"

\* The step of mjit_child_after_fork: the only one that clears mjit_enabled
\* and leaves the mutex in use (mjit_finish and a failed start_worker
\* destroy it); and the forked child.
ForkStep ==
    mjit_enabled /\ ~mjit_enabled' /\ mjit_engine_mutex' = "free"

ForkedChild ==
    ~mjit_enabled /\ mjit_engine_mutex = "free"

\* C14: mjit_child_after_fork writes mjit_enabled only; afterwards a call
\* of mjit_add_iseq_to_process, mjit_pause or mjit_resume (the calls made
\* from mpc = "idle") changes no jit_func cell, no jit_unit link, neither
\* the queue nor the worker flags, and mjit_pause and mjit_resume raise.
C14_ForkOnlyDisables ==
    [][/\ ForkStep =>
              UNCHANGED << flagVars, mjit_pch_status, workerFlags, gcVars,
                           unitVars, listVars, jit_func, hostVars, contVars,
                           mpc, marg, waitVars, callVars, lockVars,
                           serialVars >>
       /\ (ForkedChild /\ mpc = "idle") =>
              /\ UNCHANGED << jit_func, jit_unit, units, mjit_unit_queue,
                              workerFlags, worker_threads >>
              /\ mpc' \notin {"add_locked", "pause_flush", "pause_stop"}
              /\ result' # result => result' = "raise"]_vars

\* In the forked child, which inherited a queued unit, a registered
\* continuation and an iseq never submitted, mjit_pause or mjit_resume
\* has raised.
C14_Witness ==
    /\ ForkedChild
    /\ mjit_unit_queue.length > 0
    /\ first_cont # NULL
    /\ jit_func[1] = NOT_READY_JIT_ISEQ_FUNC
    /\ result = "raise"
    /\ mpc = "idle"

\* The step of a submission that runs unload_units; the place of a unit in
\* the active list before it; the units with an iseq the step has evicted
\* and those, left in the list, it found on no stack.
UnloadStep ==
    /\ mpc = "add_locked" /\ mpc' = "idle"
    /\ mjit_active_units.length >= max_cache_size

ActivePos(u) ==
    CHOOSE k \in 1..Len(mjit_active_units.nodes) :
        mjit_active_units.nodes[k] = u

Victims ==
    {u \in SeqToSet(mjit_active_units.nodes) :
        units[u].iseq # NULL /\ units'[u].freed}

SparedNotLive ==
    {u \in SeqToSet(mjit_active_units'.nodes) : ~units'[u].used_code_p}

\* C15: unload_units evicts no unit in use, none with more total_calls than
\* a unit not in use that it leaves in the list, and of two units not in use
\* with the same total_calls never the later one of the list alone.
C15_EvictsLeastCalled ==
    [][UnloadStep =>
          \A e \in Victims :
              /\ ~units'[e].used_code_p
              /\ \A r \in SparedNotLive :
                    /\ total_calls[units[e].iseq]
                          <= total_calls[units[r].iseq]
                    /\ total_calls[units[e].iseq]
                          = total_calls[units[r].iseq]
                       => ActivePos(e) < ActivePos(r)]_vars

\* unload_units has evicted units and left units not in use, among them one
\* with the total_calls of an evicted one and one with more.
C15_Witness ==
    /\ mpc = "idle"
    /\ \E e, r, q \in 1..Len(units) :
          /\ units[e].freed /\ units[e].iseq # NULL
          /\ r \in SeqToSet(mjit_active_units.nodes)
          /\ q \in SeqToSet(mjit_active_units.nodes)
          /\ ~units[r].used_code_p /\ ~units[q].used_code_p
          /\ total_calls[units[r].iseq] = total_calls[units[e].iseq]
          /\ total_calls[units[q].iseq] > total_calls[units[e].iseq]
    /\ \E u \in SeqToSet(mjit_active_units.nodes) : units[u].used_code_p

\* C16: when every unit of the active list has its iseq on a stack,
\* unload_units frees nothing and leaves the list as it is, and the
\* submission returns with its unit at the tail of the queue.
C16_AllLiveNoEviction ==
    [][(/\ UnloadStep
        /\ \A u \in SeqToSet(mjit_active_units.nodes) :
              units[u].iseq # NULL /\ OnSomeStack(units[u].iseq)) =>
          /\ mjit_active_units' = mjit_active_units
          /\ \A u \in 1..Len(units) : units'[u].freed = units[u].freed
          /\ mjit_unit_queue'.nodes
                = Append(mjit_unit_queue.nodes, jit_unit[marg])
          /\ mjit_unit_queue'.length = mjit_unit_queue.length + 1]_vars

\* A submission has run unload_units on a full cache whose units are all in
\* use, and has returned.
C16_Witness ==
    /\ mpc = "idle"
    /\ mjit_active_units.length >= max_cache_size
    /\ mjit_unit_queue.length = 1
    /\ \A u \in SeqToSet(mjit_active_units.nodes) :
          /\ units[u].used_code_p
          /\ units[u].iseq # NULL /\ OnSomeStack(units[u].iseq)

\* The units of the active list that have an iseq (those the first loop of
\* unload_units leaves), and those of them whose iseq is on no stack.
WithIseq ==
    {u \in SeqToSet(mjit_active_units.nodes) : units[u].iseq # NULL}

NotOnStack ==
    {u \in WithIseq : ~OnSomeStack(units[u].iseq)}

\* C19: with L the length of the active list after the first loop, the
\* list ends with max_cache_size - L \div 10 units when it had more and
\* enough of them are on no stack, with L units when it had no more, and
\* with the units on a stack otherwise.
C19_StopsAtMargin ==
    [][UnloadStep =>
          LET L == Cardinality(WithIseq)
              target == max_cache_size - (L \div DeleteDivisor)
          IN mjit_active_units'.length =
                IF L <= target THEN L
                ELSE IF Cardinality(NotOnStack) >= L - target THEN target
                ELSE L - Cardinality(NotOnStack)]_vars

\* unload_units has run on a list of 2 * max_cache_size units and has
\* stopped two units below the cap.
C19_Witness ==
    /\ mpc = "idle"
    /\ mjit_unit_queue.length = 1
    /\ Len(units) = 2 * max_cache_size + 1
    /\ mjit_active_units.length = max_cache_size - 2
    /\ \A u \in 1..Len(units) : units[u].iseq # NULL

\* C18: while the subsystem is not enabled no call but mjit_init changes a
\* list, the continuation list, a jit_func cell, a unit, a flag or the
\* class-serial set, none uses the engine mutex, and mjit_pause and
\* mjit_resume raise.
C18_NoOpOutsideWindow ==
    [][(~mjit_enabled /\ ~(~mjit_call_p /\ mjit_call_p')) =>
          /\ UNCHANGED << flagVars, mjit_pch_status, workerFlags, gcVars,
                          unitVars, listVars, jit_func, contVars,
                          mjit_engine_mutex, mjit_valid_class_serials >>
          /\ mpc' # "undefined"
          /\ result' # result => result' = "raise"]_vars

\* The places where the host can start a GC on the mutator thread, which
\* then calls mjit_gc_start_hook: between two calls, in an allocation of a
\* submission, in rb_gc_mark called by mjit_mark, in rb_hash_aset called by
\* mjit_add_class_serial.
GCPoint ==
    mpc \in {"idle", "add_locked", "mark_gc_mark", "serial_aset"}

\* C20: the mutator never holds the engine lock where a GC can start, nor
\* while it is in mjit_gc_start_hook.
C20_NoGcUnderLock ==
    (GCPoint \/ mpc \in {"gc_start_wait", "gc_start_woken"}) =>
        mjit_engine_mutex # "mutator"

\* mjit_mark is in rb_gc_mark, the lock released, and the worker has taken
\* the node mjit_mark stands on.
C20_Witness ==
    /\ mpc = "mark_gc_mark"
    /\ mjit_engine_mutex = "free"
    /\ mnode = DANGLING
    /\ wpc = "gc_wait"

\* C10: mjit_get_iseq_func returns a function pointer or NOT_COMPILED.
C10_ReturnsFinalValue ==
    ret \in {"none", JIT_FUNC_PTR, NOT_COMPILED_JIT_ISEQ_FUNC}

\* C21: when mjit_mark has the lock again after rb_gc_mark, it goes on
\* without reading a field of a node that was unlinked or freed while the
\* lock was released: the node whose next field it reads is still a node of
\* the queue.
C21_NoReadOfUnlinkedNode ==
    [][(mpc = "mark_gc_mark" /\ mpc' = "mark_loop") =>
          mnode # DANGLING]_vars

\* The units held in the queue or in the active list that are not freed
\* (mjit_finish frees units under the lists it leaves as they are).
HeldUnits ==
    {u \in SeqToSet(mjit_unit_queue.nodes)
              \cup SeqToSet(mjit_active_units.nodes) : ~units[u].freed}

\* C22: while the subsystem is enabled, every unit held in the queue or the
\* active list whose iseq field is not NULL is the jit_unit of that iseq,
\* and that iseq is not freed.
C22_IseqPointsBack ==
    mjit_enabled =>
        \A u \in HeldUnits :
            units[u].iseq # NULL =>
                /\ jit_unit[units[u].iseq] = u
                /\ units[u].iseq \notin iseq_freed

\* C23: a mjit_pause(wait = TRUE) enters stop_worker(), which sets
\* mjit_stop_worker_p, only with the queue empty, at once or after its
\* flush loop; mjit_pause and mjit_finish leave stop_worker() only with
\* mjit_worker_stopped set; and a mjit_pause that waits returns, unless the
\* precompiled header has failed while units were queued (the worker then
\* exits without draining the queue).
C23_PauseStopsAfterFlush ==
    /\ [][/\ (mjit_pause(TRUE) /\ mpc' = "pause_stop") =>
                mjit_unit_queue.length = 0 /\ mjit_stop_worker_p'
          /\ (mpc = "pause_flush") =>
                /\ \/ mjit_stop_worker_p' = mjit_stop_worker_p
                   \/ mjit_unit_queue.length = 0
                /\ mpc' \in {"pause_flush", "pause_stop"}
          /\ (mpc \in {"pause_stop", "finish_stop"} /\ mpc' # mpc) =>
                /\ mjit_worker_stopped /\ mjit_worker_stopped'
                /\ mpc' = "idle"]_vars
    /\ (mpc \in {"pause_flush", "pause_stop"}) ~>
           \/ mpc = "idle" /\ result = "Qtrue"
           \/ mjit_pch_status = PCH_FAILED /\ mjit_unit_queue.length > 0

\* mjit_pause(wait = TRUE) found units in the queue and polls; the worker
\* has taken the last of them and compiles it, a unit compiled before being
\* in the active list; mjit_stop_worker_p is not set yet.
C23_Witness ==
    /\ mpc = "pause_flush"
    /\ mjit_unit_queue.length = 0
    /\ mjit_active_units.length >= 1
    /\ wpc = "compiling"
    /\ ~mjit_stop_worker_p

\* The records met from first_cont on along the next fields, at most fuel
\* of them; the records mjit_cont_new has registered and mjit_cont_free has
\* not freed.
RECURSIVE ContWalk(_, _)
ContWalk(c, fuel) ==
    IF c = NULL \/ fuel = 0 THEN << >>
    ELSE << c >> \o ContWalk(conts[c].next, fuel - 1)

Registered ==
    {c \in 1..Len(conts) : conts[c].linked /\ ~conts[c].freed}

\* C24: the list from first_cont holds the registered records and no
\* other, each once; first_cont->prev is NULL, and r->next->prev is r for
\* every record r of the list that has a successor.
C24_ContListWellFormed ==
    LET walk == ContWalk(first_cont, Len(conts) + 1)
    IN /\ SeqToSet(walk) = Registered
       /\ Len(walk) = Cardinality(Registered)
       /\ first_cont # NULL => conts[first_cont].prev = NULL
       /\ \A r \in Registered :
             conts[r].next # NULL => conts[conts[r].next].prev = r

\* A record has been freed from between two others, which are still
\* registered and now follow each other, and the first record of the list
\* has been freed too.
C24_Witness ==
    /\ \E c \in 1..Len(conts) :
          /\ conts[c].freed
          /\ conts[c].prev \in Registered
          /\ conts[c].next \in Registered
          /\ conts[conts[c].prev].next = conts[c].next
    /\ \E c \in 1..Len(conts) : conts[c].freed /\ conts[c].prev = NULL
    /\ Cardinality(Registered) = 2

====
